---- MODULE Spec2Model ----
(***************************************************************************)
(* Model of NextflowWESAdapter (amazon_genomics/wes/adapters):             *)
(* get_task_outputs, get_child_tasks and the windowed log query            *)
(* query_logs_for_job, together with the CloudWatch Logs Insights backend  *)
(* the adapter talks to (start_query / get_query_results).                 *)
(*                                                                         *)
(* An invocation is split at its blocking backend calls: the entry of an   *)
(* extractor up to the planned windows, one start_query, one               *)
(* sleep + get_query_results poll (with the loop test and the code after   *)
(* the loop that follows it), and the code of the extractor that runs      *)
(* after query_logs_for_job has returned.                                  *)
(***************************************************************************)
EXTENDS Integers, Sequences, FiniteSets, TLC

VARIABLES
    logEvents,  \* backend: the log events of the head job's log stream
    queries,    \* backend: the queries submitted so far; a queryId is an index
    answers,    \* backend: the result sets delivered with status Complete
    active,     \* the invocations that the environment runs
    frame       \* per invocation: its locals, its position in the code, and
                \* the calls it has made: the start_query and describe_jobs
                \* calls with their arguments (calls), the seconds slept
                \* (slept), the number of get_query_results calls (gets) and
                \* the queryId of the latest one (last_get)

vars == <<logEvents, queries, answers, active, frame>>

----------------------------------------------------------------------------
(* Bounds of the model *)

MaxFullWindows == 2     \* a job lasts up to MaxFullWindows * 600 + 1 seconds
MaxEvents == 2          \* log events in the stream
MaxPolls == 4           \* the backend reports a final status by then
LongWindows == 25       \* windows of the longest job of the long-job runs

(* Program constants *)

WindowSeconds == 600    \* step of range(), line 141
QueryLimit == 10000     \* limit=10_000, line 154
SleepSeconds == 1       \* time.sleep(1), line 160

TenDaysSeconds == 864000   \* "max of 10 days", line 136
WorstCaseQueries == 1440   \* "will make 1440 queries", line 139
WorstCaseSeconds == 24     \* "and take 24s to execute", line 139
GatewayTimeout == 29       \* "must complete within 29s", line 138

(* Fixed values of the environment *)

None == -1              \* Python's None for an absent timestamp
T0 == 1000              \* the epoch second at which a started job started
ClockLag == 7           \* seconds between a job's stop and the invocation
Invs == {1, 2}
Ids == {"j1", "j2"}
NoJobId == "?"          \* an announcement line in which 'job=*;' parses nothing
TaskFields == {"id", "name", "status", "exit", "error", "workDir"}
EngineLogGroup == "engine-log-group"
HeadJobId == "head"

PendingStatuses == {"Scheduled", "Running"}
FailureStatuses == {"Failed", "Cancelled", "Timeout", "Unknown"}
Statuses == PendingStatuses \cup {"Complete"} \cup FailureStatuses

----------------------------------------------------------------------------
(* Python helpers *)

\* truth value of an optional integer: None and 0 are falsy
Falsy(x) == x = None \/ x = 0

\* a or b
PyOr(a, b) == IF Falsy(a) THEN b ELSE a

\* list(range(start, stop, step)), step > 0
PyRange(start, stop, step) ==
    LET n == IF stop > start THEN (stop - start + step - 1) \div step ELSE 0
    IN  [k \in 1..n |-> start + (k - 1) * step]

InSeq(x, s) == \E k \in DOMAIN s : s[k] = x

\* list(pairwise(iterable)): successive overlapping pairs
pairwise(s) == [k \in 1..(Len(s) - 1) |-> <<s[k], s[k + 1]>>]

\* mutant: the record locator is kept like any other field
to_dict_KeepPtr(results) ==
    LET keys == {results[k].field : k \in DOMAIN results}
        last(f) == CHOOSE k \in DOMAIN results :
                      /\ results[k].field = f
                      /\ \A m \in DOMAIN results : results[m].field = f => m <= k
    IN  [f \in keys |-> results[last(f)].value]

\* mutant: every task field gets a key, empty when the row lacks the field
to_dict_AllFields(results) ==
    LET has(f) == \E k \in DOMAIN results : results[k].field = f
        last(f) == CHOOSE k \in DOMAIN results :
                      /\ results[k].field = f
                      /\ \A m \in DOMAIN results : results[m].field = f => m <= k
    IN  [f \in TaskFields |-> IF has(f) THEN results[last(f)].value ELSE ""]

\* to_dict: the dict built from a result row, a list of field/value items;
\* a later item of the same field overrides an earlier one, @ptr is skipped
to_dict(results) ==
    LET keys == {results[k].field : k \in DOMAIN results} \ {"@ptr"}
        last(f) == CHOOSE k \in DOMAIN results :
                      /\ results[k].field = f
                      /\ \A m \in DOMAIN results : results[m].field = f => m <= k
    IN  [f \in keys |-> results[last(f)].value]

\* list(map(f, s)) for to_dict
MapToDict(rows) == [k \in DOMAIN rows |-> to_dict(rows[k])]

----------------------------------------------------------------------------
(* The window plan of query_logs_for_job, lines 140-144 *)

LastTimePoint(end_time, now) == PyOr(end_time, now)

\* mutant: the end of the interval is not added to the time points
TimePoints_NoAppend(start_time, last_time_point) ==
    PyRange(start_time, last_time_point, WindowSeconds)

TimePoints(start_time, last_time_point) ==
    LET pts == PyRange(start_time, last_time_point, WindowSeconds)
    IN  IF ~InSeq(last_time_point, pts) THEN Append(pts, last_time_point) ELSE pts

TimeRanges(start_time, last_time_point) ==
    pairwise(TimePoints(start_time, last_time_point))

\* endTime handed to start_query for a window, line 152
QueryEndTime(time_range, last_time_point) ==
    IF time_range[2] # last_time_point THEN time_range[2] - 1 ELSE last_time_point

----------------------------------------------------------------------------
(* The environment: head jobs, the clock, and the log stream *)

QueryChildTasks == "child_tasks"     \* the query text of lines 96-103
QueryTaskOutputs == "task_outputs"   \* the query text of lines 72-83

\* seconds a started job has lasted when it stops or when it is looked at
Durations == {k * WindowSeconds + d : k \in 0..MaxFullWindows, d \in {0, 1}}

\* JobDetail records of the batch service, with the value of int(time.time())
\* an invocation for the job reads: a job that never started, a running job
\* looked at dur seconds after its start, a stopped job looked at later
JobCases ==
    LET Containers == {<<>>, [logStreamName |-> "stream"]}
        NotStarted == {[startedAt |-> None, stoppedAt |-> e, now |-> T0 + ClockLag]
                         : e \in {None, T0}}
        Running    == {[startedAt |-> T0, stoppedAt |-> None, now |-> T0 + d]
                         : d \in Durations}
        Stopped    == {[startedAt |-> T0, stoppedAt |-> T0 + d, now |-> T0 + d + ClockLag]
                         : d \in Durations}
    IN  {[head_job |-> [jobId |-> HeadJobId, startedAt |-> t.startedAt,
                        stoppedAt |-> t.stoppedAt, container |-> c],
          now |-> t.now] : t \in NotStarted \cup Running \cup Stopped, c \in Containers}

\* the lines the workflow engine may have logged, with the fields the
\* parse clauses of the queries find in them: a submission announcement
\* ("[AWS BATCH] submitted ... job=<id>;"), with or without a job
\* identifier, or a task completion ("TaskPollingMonitor - Task completed
\* ... id: <id>; ..."), with or without its exit marker
LogLines ==
    {[type |-> "submitted", id |-> j, fields |-> {"jobId"}] : j \in Ids}
    \cup {[type |-> "submitted", id |-> NoJobId, fields |-> {}]}
    \cup {[type |-> "completed", id |-> "j1", fields |-> TaskFields],
          [type |-> "completed", id |-> "j2", fields |-> TaskFields \ {"exit"}]}

\* a line logged at a second in a log stream
EventsOf(streams) ==
    {[ts |-> t, stream |-> s, type |-> l.type, id |-> l.id, fields |-> l.fields]
        : t \in {T0, T0 + WindowSeconds}, s \in streams, l \in LogLines}

EventSpace == EventsOf({"stream"})

LogStreams == {E \in SUBSET EventSpace : Cardinality(E) <= MaxEvents}

----------------------------------------------------------------------------
(* The log backend: CloudWatch Logs Insights *)

\* the permutations of a finite set, as sequences
Orderings(S) ==
    {s \in [1..Cardinality(S) -> S] : \A a, b \in DOMAIN s : s[a] = s[b] => a = b}

Prefixes(s) == {SubSeq(s, 1, n) : n \in 0..Len(s)}

\* the events a query sees: its time range is inclusive at both ends
Matching(q, type) ==
    {e \in logEvents : /\ e.stream = q.queryString.log_stream
                       /\ e.type = type
                       /\ q.startTime <= e.ts /\ e.ts <= q.endTime}

\* "parse 'job=*;' as jobId | stats latest(@ingestionTime) by jobId
\*  | display jobId": one row per distinct identifier, and a row without
\* the field for the lines that have none
ChildRow(id) ==
    IF id = NoJobId THEN <<>> ELSE <<[field |-> "jobId", value |-> id]>>

\* "parse ... | display id, name, status, exit, error, workDir": one row
\* per completion line, holding the fields parsed from the line, with the
\* record locator the backend adds
TaskRow(e) ==
    LET items == << [field |-> "id",      value |-> e.id],
                    [field |-> "name",    value |-> "task"],
                    [field |-> "status",  value |-> "COMPLETED"],
                    [field |-> "exit",    value |-> "0"],
                    [field |-> "error",   value |-> "-"],
                    [field |-> "workDir", value |-> "/work"],
                    [field |-> "@ptr",    value |-> "ptr"] >>
    IN  SelectSeq(items, LAMBDA it : it.field \in e.fields \cup {"@ptr"})

\* the complete answers to a query, in any order the backend may choose
FullAnswers(q) ==
    IF q.queryString.text = QueryChildTasks
    THEN LET ids == {e.id : e \in Matching(q, "submitted")}
         IN  {[k \in DOMAIN o |-> ChildRow(o[k])] : o \in Orderings(ids)}
    ELSE {[k \in DOMAIN o |-> TaskRow(o[k])] : o \in Orderings(Matching(q, "completed"))}

\* the "results" of a get_query_results response with the given status:
\* nothing while Scheduled or after a failure, some of the rows while
\* Running, all of them once Complete
ResultsOf(q, status) ==
    IF status = "Complete" THEN FullAnswers(q)
    ELSE IF status = "Running"
         THEN UNION {Prefixes(a) : a \in FullAnswers(q)}
         ELSE {<<>>}

\* the statuses the backend may report at the n-th poll of a query
StatusesAt(n) ==
    IF n < MaxPolls THEN Statuses ELSE Statuses \ PendingStatuses

----------------------------------------------------------------------------
(* Invocations *)

NoResponse == [status |-> "None", results |-> <<>>]     \* response = None
NoReturn == [kind |-> "none"]

IdleFrame(jc) ==
    [ pc |-> "idle", caller |-> "none", head_job |-> jc.head_job, now |-> jc.now,
      query |-> "none", last_time_point |-> None, time_ranges |-> <<>>,
      idx |-> 0, query_id |-> 0, polls |-> 0, response |-> NoResponse,
      results |-> <<>>, calls |-> <<>>, slept |-> 0, gets |-> 0, last_get |-> 0,
      ret |-> NoReturn ]

DefaultJobCase == CHOOSE jc \in JobCases : TRUE

Init ==
    /\ active = {1}
    /\ logEvents \in LogStreams
    /\ queries = <<>>
    /\ answers = <<>>
    /\ \E jc \in JobCases :
          frame = [i \in Invs |-> IF i \in active THEN IdleFrame(jc)
                                  ELSE IdleFrame(DefaultJobCase)]

\* mutant: the start time is not tested before the windows are planned
Plan_NoStartCheck(f, caller, query) ==
    LET start_time == f.head_job.startedAt
        end_time == f.head_job.stoppedAt
        last == LastTimePoint(end_time, f.now)
        trs == TimeRanges(start_time, last)
    IN  [f EXCEPT !.caller = caller, !.query = query,
                  !.last_time_point = last, !.time_ranges = trs,
                  !.results = <<>>, !.idx = 1,
                  !.pc = IF Len(trs) = 0 THEN "resume" ELSE "start"]

\* query_logs_for_job up to its first backend call, lines 127-147
Plan(f, caller, query) ==
    LET start_time == f.head_job.startedAt
        end_time == f.head_job.stoppedAt
        last == LastTimePoint(end_time, f.now)
        trs == TimeRanges(start_time, last)
    IN  IF Falsy(start_time)
        THEN [f EXCEPT !.caller = caller, !.query = query,
                       !.results = <<>>, !.pc = "resume"]
        ELSE [f EXCEPT !.caller = caller, !.query = query,
                       !.last_time_point = last, !.time_ranges = trs,
                       !.results = <<>>, !.idx = 1,
                       !.pc = IF Len(trs) = 0 THEN "resume" ELSE "start"]

\* get_task_outputs up to the first backend call, lines 68-84 (and 85-88
\* when the job has no log stream)
GetTaskOutputs(i) ==
    /\ i \in active
    /\ frame[i].pc = "idle"
    /\ LET f == frame[i] IN
       frame' = [frame EXCEPT ![i] =
          IF "logStreamName" \in DOMAIN f.head_job.container
          THEN Plan(f, "get_task_outputs", QueryTaskOutputs)
          ELSE [f EXCEPT !.caller = "get_task_outputs", !.pc = "done",
                         !.ret = [kind |-> "return",
                                  value |-> [id |-> f.head_job.jobId,
                                             outputs |-> <<>>]]]]
    /\ UNCHANGED <<logEvents, queries, answers, active>>

\* mutant: the log stream is not tested before the logs are queried
GetChildTasks_NoGuard(i) ==
    /\ i \in active
    /\ frame[i].pc = "idle"
    /\ frame' = [frame EXCEPT ![i] = Plan(frame[i], "get_child_tasks", QueryChildTasks)]
    /\ UNCHANGED <<logEvents, queries, answers, active>>

\* get_child_tasks up to the first backend call, lines 90-104
GetChildTasks(i) ==
    /\ i \in active
    /\ frame[i].pc = "idle"
    /\ LET f == frame[i] IN
       frame' = [frame EXCEPT ![i] =
          IF "logStreamName" \notin DOMAIN f.head_job.container
          THEN [f EXCEPT !.caller = "get_child_tasks", !.pc = "done",
                         !.ret = [kind |-> "return", value |-> <<>>]]
          ELSE Plan(f, "get_child_tasks", QueryChildTasks)]
    /\ UNCHANGED <<logEvents, queries, answers, active>>

\* mutant: the query is submitted with the backend's default row limit
StartQueryRequest_DefaultLimit(f) ==
    LET time_range == f.time_ranges[f.idx]
    IN  [ logGroupName |-> EngineLogGroup,
          startTime |-> time_range[1],
          endTime |-> QueryEndTime(time_range, f.last_time_point),
          queryString |-> [text |-> f.query,
                           log_stream |-> f.head_job.container.logStreamName],
          limit |-> 1000 ]

\* the start_query call for the window at hand, lines 148-156
StartQueryRequest(f) ==
    LET time_range == f.time_ranges[f.idx]
    IN  [ logGroupName |-> EngineLogGroup,
          startTime |-> time_range[1],
          endTime |-> QueryEndTime(time_range, f.last_time_point),
          queryString |-> [text |-> f.query,
                           log_stream |-> f.head_job.container.logStreamName],
          limit |-> QueryLimit ]

StartQuery(i) ==
    /\ i \in active
    /\ frame[i].pc = "start"
    /\ LET f == frame[i]
           req == StartQueryRequest(f)
           qid == Len(queries) + 1
       IN  /\ queries' = Append(queries, req)
           /\ frame' = [frame EXCEPT ![i] =
                 [f EXCEPT !.query_id = qid, !.response = NoResponse, !.polls = 0,
                           !.calls = Append(@, [api |-> "start_query", req |-> req,
                                                queryId |-> qid]),
                           !.pc = "poll"]]
    /\ UNCHANGED <<logEvents, answers, active>>

\* mutant: only Running keeps the loop going
StillWaiting_OnlyRunning(response) ==
    response = NoResponse \/ response.status = "Running"

\* the test of the while loop, line 158
StillWaiting(response) ==
    response = NoResponse \/ response.status \in PendingStatuses

\* mutant: a failed window ends the loop and the rows so far are returned
AfterPoll_PartialOnFailure(f, response) ==
    IF StillWaiting(response)
    THEN [f EXCEPT !.response = response]
    ELSE IF response.status # "Complete"
    THEN [f EXCEPT !.response = response, !.pc = "resume"]
    ELSE [f EXCEPT !.response = response,
                   !.results = @ \o MapToDict(response.results),
                   !.idx = @ + 1,
                   !.pc = IF f.idx + 1 > Len(f.time_ranges) THEN "resume" ELSE "start"]

\* mutant: a window's rows are put in front of the rows of earlier windows
AfterPoll_Prepend(f, response) ==
    IF StillWaiting(response)
    THEN [f EXCEPT !.response = response]
    ELSE IF response.status # "Complete"
    THEN [f EXCEPT !.response = response, !.pc = "done",
                   !.ret = [kind |-> "raise", exc |-> "InternalServerError"]]
    ELSE [f EXCEPT !.response = response,
                   !.results = MapToDict(response.results) \o @,
                   !.idx = @ + 1,
                   !.pc = IF f.idx + 1 > Len(f.time_ranges) THEN "resume" ELSE "start"]

\* mutant: a failed window is skipped and the next one is queried
AfterPoll_SkipFailed(f, response) ==
    IF StillWaiting(response)
    THEN [f EXCEPT !.response = response]
    ELSE [f EXCEPT !.response = response,
                   !.results = @ \o (IF response.status = "Complete"
                                     THEN MapToDict(response.results) ELSE <<>>),
                   !.idx = @ + 1,
                   !.pc = IF f.idx + 1 > Len(f.time_ranges) THEN "resume" ELSE "start"]

\* mutant: a failed window is submitted again
AfterPoll_RetryFailed(f, response) ==
    IF StillWaiting(response)
    THEN [f EXCEPT !.response = response]
    ELSE IF response.status # "Complete"
    THEN [f EXCEPT !.response = response, !.pc = "start"]
    ELSE [f EXCEPT !.response = response,
                   !.results = @ \o MapToDict(response.results),
                   !.idx = @ + 1,
                   !.pc = IF f.idx + 1 > Len(f.time_ranges) THEN "resume" ELSE "start"]

\* mutant: a failed query is neither raised nor left, the invocation hangs
AfterPoll_HangOnFailure(f, response) ==
    IF StillWaiting(response) \/ response.status # "Complete"
    THEN [f EXCEPT !.response = response]
    ELSE [f EXCEPT !.response = response,
                   !.results = @ \o MapToDict(response.results),
                   !.idx = @ + 1,
                   !.pc = IF f.idx + 1 > Len(f.time_ranges) THEN "resume" ELSE "start"]

\* what follows a poll's response: the loop test, the status check and the
\* accumulation of the window's rows, lines 158-167
AfterPoll(f, response) ==
    IF StillWaiting(response)
    THEN [f EXCEPT !.response = response]
    ELSE IF response.status # "Complete"
    THEN [f EXCEPT !.response = response, !.pc = "done",
                   !.ret = [kind |-> "raise", exc |-> "InternalServerError"]]
    ELSE [f EXCEPT !.response = response,
                   !.results = @ \o MapToDict(response.results),
                   !.idx = @ + 1,
                   !.pc = IF f.idx + 1 > Len(f.time_ranges) THEN "resume" ELSE "start"]

\* mutant: the first poll of a query is made at once, without the wait
Polled_SkipFirstWait(f) ==
    [f EXCEPT !.polls = @ + 1,
              !.slept = IF f.polls = 0 THEN @ ELSE @ + SleepSeconds,
              !.gets = @ + 1,
              !.last_get = f.query_id]

\* the calls of one turn of the while loop: time.sleep(1), then
\* get_query_results(queryId=query_id), lines 159-161
Polled(f) ==
    [f EXCEPT !.polls = @ + 1,
              !.slept = @ + SleepSeconds,
              !.gets = @ + 1,
              !.last_get = f.query_id]

\* mutant: the query id is kept on the adapter, shared by the invocations:
\* a poll asks for the query submitted last, by whichever invocation
Poll_SharedQueryId(i) ==
    /\ i \in active
    /\ frame[i].pc = "poll"
    /\ StillWaiting(frame[i].response)
    /\ LET f == frame[i]
           qid == Len(queries)
       IN
       \E status \in StatusesAt(f.polls + 1) :
       \E rows \in ResultsOf(queries[qid], status) :
          /\ frame' = [frame EXCEPT ![i] =
                AfterPoll([Polled(f) EXCEPT !.last_get = qid],
                          [status |-> status, results |-> rows])]
          /\ answers' = IF status = "Complete"
                        THEN Append(answers, [queryId |-> qid, results |-> rows])
                        ELSE answers
    /\ UNCHANGED <<logEvents, queries, active>>

\* one turn of the while loop: sleep, get_query_results, lines 158-161
Poll(i) ==
    /\ i \in active
    /\ frame[i].pc = "poll"
    /\ StillWaiting(frame[i].response)
    /\ LET f == frame[i] IN
       \E status \in StatusesAt(f.polls + 1) :
       \E rows \in ResultsOf(queries[f.query_id], status) :
          /\ frame' = [frame EXCEPT ![i] =
                AfterPoll(Polled(f), [status |-> status, results |-> rows])]
          /\ answers' = IF status = "Complete"
                        THEN Append(answers, [queryId |-> f.query_id,
                                              results |-> rows])
                        ELSE answers
    /\ UNCHANGED <<logEvents, queries, active>>

\* mutant: the rows are returned bare, without the summary around them
TaskOutputsReturn_Bare(i) ==
    /\ i \in active
    /\ frame[i].pc = "resume"
    /\ frame[i].caller = "get_task_outputs"
    /\ frame' = [frame EXCEPT ![i] =
          [frame[i] EXCEPT !.pc = "done",
                           !.ret = [kind |-> "return",
                                    value |-> [outputs |-> frame[i].results]]]]
    /\ UNCHANGED <<logEvents, queries, answers, active>>

\* get_task_outputs after query_logs_for_job has returned, lines 84-88
TaskOutputsReturn(i) ==
    /\ i \in active
    /\ frame[i].pc = "resume"
    /\ frame[i].caller = "get_task_outputs"
    /\ LET f == frame[i] IN
       frame' = [frame EXCEPT ![i] =
          [f EXCEPT !.pc = "done",
                    !.ret = [kind |-> "return",
                             value |-> [id |-> f.head_job.jobId,
                                        outputs |-> f.results]]]]
    /\ UNCHANGED <<logEvents, queries, answers, active>>

\* list(map(lambda job: job["jobId"], jobs)), line 105
ChildJobIds(jobs) == [k \in DOMAIN jobs |-> jobs[k]["jobId"]]

\* BatchAdapter.describe_jobs: the JobDetail of every identifier that still
\* resolves, in the order asked
DescribeJobs(job_ids, purged) ==
    LET keep(id) == id \notin purged
    IN  [k \in DOMAIN SelectSeq(job_ids, keep) |->
            [jobId |-> SelectSeq(job_ids, keep)[k]]]

\* mutant: rows without a jobId are skipped, the others are described
ChildTasksDescribe_SkipMissing(i) ==
    /\ i \in active
    /\ frame[i].pc = "resume"
    /\ frame[i].caller = "get_child_tasks"
    /\ LET f == frame[i] IN
       \E purged \in SUBSET Ids :
          LET child_job_ids ==
                 ChildJobIds(SelectSeq(f.results, LAMBDA job : "jobId" \in DOMAIN job))
          IN  frame' = [frame EXCEPT ![i] =
                 [f EXCEPT !.pc = "done",
                           !.calls = Append(@, [api |-> "describe_jobs",
                                                jobs |-> child_job_ids]),
                           !.ret = [kind |-> "return",
                                    value |-> DescribeJobs(child_job_ids, purged)]]]
    /\ UNCHANGED <<logEvents, queries, answers, active>>

\* get_child_tasks after query_logs_for_job has returned, lines 104-106
ChildTasksDescribe(i) ==
    /\ i \in active
    /\ frame[i].pc = "resume"
    /\ frame[i].caller = "get_child_tasks"
    /\ LET f == frame[i] IN
       IF \E k \in DOMAIN f.results : "jobId" \notin DOMAIN f.results[k]
       THEN frame' = [frame EXCEPT ![i] =
               [f EXCEPT !.pc = "done",
                         !.ret = [kind |-> "raise", exc |-> "KeyError"]]]
       ELSE \E purged \in SUBSET Ids :
               LET child_job_ids == ChildJobIds(f.results) IN
               frame' = [frame EXCEPT ![i] =
                  [f EXCEPT !.pc = "done",
                            !.calls = Append(@, [api |-> "describe_jobs",
                                                 jobs |-> child_job_ids]),
                            !.ret = [kind |-> "return",
                                     value |-> DescribeJobs(child_job_ids, purged)]]]
    /\ UNCHANGED <<logEvents, queries, answers, active>>

Next ==
    \E i \in Invs :
        \/ GetTaskOutputs(i)
        \/ GetChildTasks(i)
        \/ StartQuery(i)
        \/ Poll(i)
        \/ TaskOutputsReturn(i)
        \/ ChildTasksDescribe(i)

Spec == Init /\ [][Next]_vars

\* the thread of an invocation keeps running: a step that stays possible is
\* taken; the backend reports a final status by the MaxPolls-th poll
SpecFair == Spec /\ WF_vars(Next)

----------------------------------------------------------------------------
(* Two invocations on one adapter, for two jobs that log to two streams   *)

\* the job of each invocation: its log stream, its identifier in the lines
\* of its stream, its duration
ConcStream(i) == IF i = 1 THEN "s1" ELSE "s2"
ConcId(i) == IF i = 1 THEN "j1" ELSE "j2"
ConcDurations(i) == IF i = 1 THEN {1, WindowSeconds + 1} ELSE {1}

ConcJobCases(i) ==
    {[head_job |-> [jobId |-> HeadJobId, startedAt |-> T0, stoppedAt |-> T0 + d,
                    container |-> [logStreamName |-> ConcStream(i)]],
      now |-> T0 + d + ClockLag] : d \in ConcDurations(i)}

\* one line per stream, about the job of that stream
ConcEvents(i) ==
    {e \in EventsOf({ConcStream(i)}) :
        e.ts = T0 /\ e.id = ConcId(i) /\ e.fields # {}}

ConcLogs == {E1 \cup E2 : E1 \in {{e} : e \in ConcEvents(1)},
                          E2 \in {{e} : e \in ConcEvents(2)}}

InitConc ==
    /\ active = Invs
    /\ logEvents \in ConcLogs
    /\ queries = <<>>
    /\ answers = <<>>
    /\ \E jc1 \in ConcJobCases(1), jc2 \in ConcJobCases(2) :
          frame = [i \in Invs |-> IF i = 1 THEN IdleFrame(jc1) ELSE IdleFrame(jc2)]

SpecConc == InitConc /\ [][Next]_vars

----------------------------------------------------------------------------
(* Long jobs with a prompt backend: jobs that stopped after 1..LongWindows *)
(* full windows and logged nothing, every query Complete at its first poll *)

LongJobCases ==
    {[head_job |-> [jobId |-> HeadJobId, startedAt |-> T0,
                    stoppedAt |-> T0 + k * WindowSeconds,
                    container |-> [logStreamName |-> "stream"]],
      now |-> T0 + k * WindowSeconds + ClockLag] : k \in 1..LongWindows}

InitLong ==
    /\ active = {1}
    /\ logEvents = {}
    /\ queries = <<>>
    /\ answers = <<>>
    /\ \E jc \in LongJobCases :
          frame = [i \in Invs |-> IF i \in active THEN IdleFrame(jc)
                                  ELSE IdleFrame(DefaultJobCase)]

\* a poll that the backend answers with Complete
PollComplete(i) == Poll(i) /\ frame'[i].response.status = "Complete"

NextLong ==
    \E i \in Invs :
        \/ GetTaskOutputs(i)
        \/ GetChildTasks(i)
        \/ StartQuery(i)
        \/ PollComplete(i)
        \/ TaskOutputsReturn(i)
        \/ ChildTasksDescribe(i)

SpecLong == InitLong /\ [][NextLong]_vars

----------------------------------------------------------------------------
(* Vocabulary of the properties *)

HasLogStream(f) == "logStreamName" \in DOMAIN f.head_job.container

\* the invocation has entered query_logs_for_job
Entered(f) == f.caller # "none" /\ HasLogStream(f)

\* the job has a start time
Started(f) == f.head_job.startedAt # None

\* the end of the interval to search: stoppedAt if present, else the clock
EffectiveEnd(f) ==
    IF f.head_job.stoppedAt # None THEN f.head_job.stoppedAt ELSE f.now

\* the calls of one kind the invocation has made, in order
CallsOf(f, api) == SelectSeq(f.calls, LAMBDA c : c.api = api)

StartRequests(f) == [k \in DOMAIN CallsOf(f, "start_query") |->
                        CallsOf(f, "start_query")[k].req]

\* query_logs_for_job has returned its rows to the extractor
Returned(f) == f.pc = "resume" \/ (f.pc = "done" /\ f.ret.kind = "return")

Span(time_range) == time_range[2] - time_range[1]

----------------------------------------------------------------------------
(* C1: for a job with a start time whose effective end equals its start,  *)
(* exactly one window is planned and exactly one start_query is issued.   *)
(* The code plans none: range() is empty, the end is the only time point  *)
(* and pairwise() of one point has no pair.                               *)

C1_ZeroDurationOneWindow ==
    \A i \in active :
        LET f == frame[i] IN
        (Entered(f) /\ Started(f) /\ Returned(f)
            /\ EffectiveEnd(f) = f.head_job.startedAt)
        => /\ Len(f.time_ranges) = 1
           /\ Len(CallsOf(f, "start_query")) = 1

(* C2: when the effective end is after the start, the planned windows are *)
(* contiguous, start at startedAt, end at the effective end, none spans   *)
(* more than 600 seconds and only the last may span less.                 *)

C2_WindowsCoverInterval ==
    \A i \in active :
        LET f == frame[i]
            w == f.time_ranges
        IN  (Entered(f) /\ Started(f) /\ EffectiveEnd(f) > f.head_job.startedAt)
            => /\ Len(w) >= 1
               /\ w[1][1] = f.head_job.startedAt
               /\ w[Len(w)][2] = EffectiveEnd(f)
               /\ \A k \in 1..(Len(w) - 1) : w[k][2] = w[k + 1][1]
               /\ \A k \in 1..Len(w) : Span(w[k]) > 0 /\ Span(w[k]) <= 600
               /\ \A k \in 1..(Len(w) - 1) : Span(w[k]) = 600

C2_Witness ==
    \E i \in active :
        LET f == frame[i] IN
        /\ Entered(f) /\ Started(f)
        /\ Len(f.time_ranges) >= 3
        /\ Span(f.time_ranges[Len(f.time_ranges)]) < 600

(* C3: every non-final window is submitted with its nominal end less one  *)
(* and the final window with its nominal end, and the inclusive ranges    *)
(* submitted by an invocation that returns contain every second from      *)
(* startedAt to the effective end exactly once.                           *)

SubmittedAsPlanned(f) ==
    LET w == f.time_ranges
        r == StartRequests(f)
    IN  /\ Len(r) = Len(w)
        /\ \A k \in 1..Len(w) :
              /\ r[k].startTime = w[k][1]
              /\ r[k].endTime = IF k < Len(w) THEN w[k][2] - 1 ELSE w[k][2]

EachSecondOnce(f) ==
    LET r == StartRequests(f) IN
    \A t \in f.head_job.startedAt..EffectiveEnd(f) :
        Cardinality({k \in DOMAIN r : r[k].startTime <= t /\ t <= r[k].endTime}) = 1

C3_RangesPartitionInterval ==
    \A i \in active :
        LET f == frame[i] IN
        (Entered(f) /\ Started(f) /\ Returned(f))
        => SubmittedAsPlanned(f) /\ EachSecondOnce(f)

\* the same for the jobs whose effective end is after their start
C3_RangesPartitionPositiveInterval ==
    \A i \in active :
        LET f == frame[i] IN
        (Entered(f) /\ Started(f) /\ Returned(f)
            /\ EffectiveEnd(f) > f.head_job.startedAt)
        => SubmittedAsPlanned(f) /\ EachSecondOnce(f)

(* C4: once a window's query ends in a status other than Complete, the    *)
(* invocation has raised InternalServerError, the extractor has let it    *)
(* through, and the caller has been handed no rows and no jobs.           *)

QueryFailed(f) == f.response.status \in Statuses \ (PendingStatuses \cup {"Complete"})

C4_FailedWindowAborts ==
    \A i \in active :
        LET f == frame[i] IN
        /\ QueryFailed(f) =>
              /\ f.pc = "done"
              /\ f.ret = [kind |-> "raise", exc |-> "InternalServerError"]
              /\ Len(CallsOf(f, "describe_jobs")) = 0
        /\ f.ret = [kind |-> "raise", exc |-> "InternalServerError"]
              => QueryFailed(f)

C4_Witness ==
    \E i \in active :
        LET f == frame[i] IN
        /\ QueryFailed(f)
        /\ f.ret.kind = "raise"
        /\ Len(f.results) > 0
        /\ Len(CallsOf(f, "start_query")) >= 2

(* C5: the identifiers get_child_tasks hands to describe_jobs hold no     *)
(* identifier twice and are exactly the identifiers announced during the  *)
(* job's lifetime (stated for jobs that have lasted at least a second).   *)
(* An identifier announced in two windows is handed over twice.           *)

Announced(f) ==
    {e.id : e \in {x \in logEvents : /\ x.type = "submitted"
                                     /\ "jobId" \in x.fields
                                     /\ f.head_job.startedAt <= x.ts
                                     /\ x.ts <= EffectiveEnd(f)}}

NoDuplicates(s) == \A a, b \in DOMAIN s : s[a] = s[b] => a = b

C5_ChildIdsDistinct ==
    \A i \in active :
        LET f == frame[i]
            d == CallsOf(f, "describe_jobs")
        IN  (Started(f) /\ EffectiveEnd(f) > f.head_job.startedAt /\ Len(d) = 1)
            => /\ NoDuplicates(d[1].jobs)
               /\ {d[1].jobs[k] : k \in DOMAIN d[1].jobs} = Announced(f)

\* the identifiers handed over are at least the right set
C5_ChildIdsCoverAnnounced ==
    \A i \in active :
        LET f == frame[i]
            d == CallsOf(f, "describe_jobs")
        IN  (Started(f) /\ EffectiveEnd(f) > f.head_job.startedAt /\ Len(d) = 1)
            => {d[1].jobs[k] : k \in DOMAIN d[1].jobs} = Announced(f)

(* C6: for a job without a start time query_logs_for_job returns no rows, *)
(* calls neither start_query nor get_query_results, and raises nothing.   *)

C6_NotStartedReturnsEmpty ==
    \A i \in active :
        LET f == frame[i] IN
        (Entered(f) /\ ~Started(f))
        => /\ Returned(f)
           /\ f.results = <<>>
           /\ Len(CallsOf(f, "start_query")) = 0
           /\ f.gets = 0
           /\ f.ret.kind # "raise"

C6_Witness ==
    \E i \in active :
        LET f == frame[i] IN
        /\ Entered(f) /\ ~Started(f)
        /\ f.head_job.stoppedAt # None
        /\ f.pc = "done" /\ f.ret.kind = "return"

(* C7: for a head job without a log stream get_task_outputs returns the   *)
(* job's identifier with no outputs and get_child_tasks returns no jobs,  *)
(* whatever the job's times, with no backend call and no error.           *)

C7_NoLogStreamNoQuery ==
    \A i \in active :
        LET f == frame[i] IN
        (f.caller # "none" /\ ~HasLogStream(f))
        => /\ f.pc = "done"
           /\ f.calls = <<>> /\ f.gets = 0 /\ f.slept = 0
           /\ f.ret.kind = "return"
           /\ f.caller = "get_task_outputs"
                 => f.ret.value = [id |-> f.head_job.jobId, outputs |-> <<>>]
           /\ f.caller = "get_child_tasks" => f.ret.value = <<>>

C7_Witness ==
    \E i \in active :
        LET f == frame[i] IN
        /\ f.caller = "get_child_tasks" /\ ~HasLogStream(f)
        /\ Started(f) /\ EffectiveEnd(f) > f.head_job.startedAt + 600
        /\ logEvents # {}
        /\ f.pc = "done"

(* C8: every get_query_results call is one poll of the query at hand,     *)
(* made only while no status or a Scheduled/Running status has been seen  *)
(* for it; a Scheduled/Running response keeps the invocation polling the  *)
(* same query with its rows untouched, any other response ends the        *)
(* polling of that query, and a Complete response appends exactly the     *)
(* rows of that response.                                                 *)

\* a returned row holds the items of a backend row, the record locator apart
RowAgrees(d, row) ==
    /\ DOMAIN d = {row[k].field : k \in DOMAIN row} \ {"@ptr"}
    /\ \A k \in DOMAIN row : row[k].field # "@ptr" => d[row[k].field] = row[k].value

\* new is old followed by the backend rows, one returned row per backend row
AppendedRows(old, new, rows) ==
    /\ Len(new) = Len(old) + Len(rows)
    /\ SubSeq(new, 1, Len(old)) = old
    /\ \A k \in DOMAIN rows : RowAgrees(new[Len(old) + k], rows[k])

C8_PollLoop ==
    [][\A i \in active :
        LET f == frame[i]
            g == frame'[i]
            n == f.gets
            m == g.gets
            st == g.response.status
        IN  /\ (f.pc = "poll" /\ g.pc # "poll") => m = n + 1
            /\ m # n =>
                 /\ m = n + 1
                 /\ f.pc = "poll"
                 /\ f.response.status \in PendingStatuses \cup {"None"}
                 /\ g.last_get = f.query_id
                 /\ g.polls = f.polls + 1
                 /\ st \in Statuses
                 /\ st \in PendingStatuses =>
                       /\ g.pc = "poll"
                       /\ g.query_id = f.query_id
                       /\ g.results = f.results
                 /\ st \notin PendingStatuses => g.pc # "poll"
                 /\ st = "Complete" =>
                       AppendedRows(f.results, g.results, g.response.results)
      ]_vars

C8_Witness ==
    \E i \in active :
        LET f == frame[i] IN
        /\ f.polls = 4
        /\ f.response.status = "Complete"
        /\ Len(f.response.results) >= 1
        /\ Len(f.results) = Len(f.response.results)

(* C9: the rows query_logs_for_job returns are the rows of the windows'   *)
(* Complete responses, window after window in increasing time order and,  *)
(* within a window, in the order of the response; no row is dropped,      *)
(* merged or moved.                                                       *)

RECURSIVE Flatten(_)
Flatten(ss) == IF ss = <<>> THEN <<>> ELSE Head(ss) \o Flatten(Tail(ss))

\* the rows delivered with status Complete for a query
AnswerTo(qid) ==
    LET hits == SelectSeq(answers, LAMBDA a : a.queryId = qid)
    IN  IF Len(hits) = 0 THEN <<>> ELSE hits[1].results

\* the backend rows of the invocation's queries, in the order of submission
DeliveredRows(f) ==
    LET c == CallsOf(f, "start_query")
    IN  Flatten([k \in DOMAIN c |-> AnswerTo(c[k].queryId)])

\* the identifier a row is about: jobId of an announcement, id of a task
KeyOfRow(row) ==
    IF \E n \in DOMAIN row : row[n].field \in {"id", "jobId"}
    THEN row[CHOOSE n \in DOMAIN row : row[n].field \in {"id", "jobId"}].value
    ELSE NoJobId

KeyOfDict(d) ==
    IF "jobId" \in DOMAIN d THEN d["jobId"]
    ELSE IF "id" \in DOMAIN d THEN d["id"] ELSE NoJobId

C9_RowsInWindowOrder ==
    \A i \in active :
        LET f == frame[i]
            c == CallsOf(f, "start_query")
            raw == DeliveredRows(f)
        IN  (Entered(f) /\ Returned(f))
            => /\ \A k \in 1..(Len(c) - 1) : c[k].req.startTime < c[k + 1].req.startTime
               /\ \A k \in DOMAIN c :
                     Len(SelectSeq(answers, LAMBDA a : a.queryId = c[k].queryId)) = 1
               /\ [k \in DOMAIN f.results |-> KeyOfDict(f.results[k])]
                     = [k \in DOMAIN raw |-> KeyOfRow(raw[k])]

C9_Witness ==
    \E i \in active :
        LET f == frame[i]
            c == CallsOf(f, "start_query")
        IN  /\ Entered(f) /\ Returned(f)
            /\ Len(c) >= 2
            /\ Len(AnswerTo(c[1].queryId)) >= 1
            /\ Len(AnswerTo(c[2].queryId)) >= 1
            /\ KeyOfDict(f.results[1]) # KeyOfDict(f.results[2])

(* C10: no row held or returned by query_logs_for_job, and no row in the  *)
(* outputs of get_task_outputs, has the field @ptr, and each such row has *)
(* exactly the other fields of its backend row, with their values.        *)

RowsClean(rows, raw) ==
    /\ Len(rows) = Len(raw)
    /\ \A k \in DOMAIN rows :
          /\ "@ptr" \notin DOMAIN rows[k]
          /\ RowAgrees(rows[k], raw[k])

C10_NoRecordLocator ==
    \A i \in active :
        LET f == frame[i] IN
        Entered(f) =>
           /\ RowsClean(f.results, DeliveredRows(f))
           /\ (f.caller = "get_task_outputs" /\ f.ret.kind = "return")
                 => RowsClean(f.ret.value.outputs, DeliveredRows(f))
           /\ (f.caller = "get_child_tasks" /\ f.ret.kind = "return")
                 => \A k \in DOMAIN f.ret.value : "@ptr" \notin DOMAIN f.ret.value[k]

C10_Witness ==
    \E i \in active :
        LET f == frame[i] IN
        /\ f.caller = "get_task_outputs" /\ f.ret.kind = "return"
        /\ Len(f.ret.value.outputs) >= 2
        /\ \E k \in DOMAIN DeliveredRows(f) :
              \E n \in DOMAIN DeliveredRows(f)[k] : DeliveredRows(f)[k][n].field = "@ptr"

(* C11: the summary get_task_outputs returns has the fields jobId (the    *)
(* head job's identifier) and outputs (the task-outcome rows), with or    *)
(* without a log stream, started or not.  The code names the first field  *)
(* id.                                                                    *)

SummaryReturned(f) == f.caller = "get_task_outputs" /\ f.ret.kind = "return"

C11_SummaryHasJobIdAndOutputs ==
    \A i \in active :
        LET f == frame[i] IN
        SummaryReturned(f) => DOMAIN f.ret.value = {"jobId", "outputs"}

(* C11 as amended: the summary has the fields id (the head job's          *)
(* identifier) and outputs (the rows query_logs_for_job returned, none    *)
(* when the job has no log stream), in every case.                        *)

C11_SummaryHasIdAndOutputs ==
    \A i \in active :
        LET f == frame[i] IN
        SummaryReturned(f) =>
           /\ DOMAIN f.ret.value = {"id", "outputs"}
           /\ f.ret.value.id = f.head_job.jobId
           /\ f.ret.value.outputs = IF HasLogStream(f) THEN f.results ELSE <<>>

C11_Witness ==
    \E i \in active :
        LET f == frame[i] IN
        /\ SummaryReturned(f) /\ HasLogStream(f) /\ Started(f)
        /\ Len(f.ret.value.outputs) >= 1

(* C12: a completion line in which only some of id, name, status, exit,   *)
(* error, workDir were found is returned by get_task_outputs as a row     *)
(* with exactly the fields found; no line in the searched interval is     *)
(* left out and the only error is that of a failed query.                 *)

CompletedIn(f) ==
    {e \in logEvents : /\ e.type = "completed"
                       /\ f.head_job.startedAt <= e.ts
                       /\ e.ts <= EffectiveEnd(f)}

RowOfSomeLine(d, f) ==
    \E e \in CompletedIn(f) : DOMAIN d = e.fields /\ d["id"] = e.id

C12_MissingFieldsTolerated ==
    \A i \in active :
        LET f == frame[i] IN
        (f.caller = "get_task_outputs" /\ Entered(f)) =>
           /\ f.ret.kind = "raise" => QueryFailed(f)
           /\ \A k \in DOMAIN f.results : RowOfSomeLine(f.results[k], f)
           /\ SummaryReturned(f) =>
                 /\ \A k \in DOMAIN f.ret.value.outputs :
                       RowOfSomeLine(f.ret.value.outputs[k], f)
                 /\ (Started(f) /\ EffectiveEnd(f) > f.head_job.startedAt)
                       => Len(f.ret.value.outputs) = Cardinality(CompletedIn(f))

C12_Witness ==
    \E i \in active :
        LET f == frame[i] IN
        /\ SummaryReturned(f)
        /\ \E k \in DOMAIN f.ret.value.outputs :
              /\ "exit" \notin DOMAIN f.ret.value.outputs[k]
              /\ DOMAIN f.ret.value.outputs[k] = TaskFields \ {"exit"}

(* C13: an invocation has at most one query outstanding: a start_query    *)
(* is issued only when the invocation has no query yet or has seen its    *)
(* latest query Complete, and each start_query starts later than the one  *)
(* before it.                                                             *)

C13_OneQueryAtATime ==
    [][\A i \in active :
        LET f == frame[i]
            g == frame'[i]
            c == CallsOf(f, "start_query")
            d == CallsOf(g, "start_query")
        IN  Len(d) # Len(c) =>
               /\ Len(d) = Len(c) + 1
               /\ Len(c) = 0 \/ f.response.status = "Complete"
               /\ Len(c) > 0 =>
                     /\ f.last_get = c[Len(c)].queryId
                     /\ d[Len(d)].req.startTime > c[Len(c)].req.startTime
                     /\ d[Len(d)].req.startTime > c[Len(c)].req.endTime
               /\ g.response = NoResponse
      ]_vars

C13_Witness ==
    \E i \in active :
        LET f == frame[i] IN
        /\ Len(CallsOf(f, "start_query")) = 3
        /\ f.pc = "poll"
        /\ f.response.status = "Running"

(* C14: once an invocation has seen a query end in a status other than    *)
(* Complete it is over and has no step left: the failed window was        *)
(* submitted once and is the last one submitted, its failing poll is the  *)
(* last poll, and no start_query, sleep, get_query_results or             *)
(* describe_jobs can follow.                                              *)

C14_NoCallAfterFailure ==
    \A i \in active :
        LET f == frame[i]
            c == CallsOf(f, "start_query")
        IN  QueryFailed(f) =>
               /\ f.pc = "done"
               /\ ~ENABLED (StartQuery(i) \/ Poll(i) \/ TaskOutputsReturn(i)
                              \/ ChildTasksDescribe(i))
               /\ Len(c) = f.idx
               /\ c[Len(c)].queryId = f.query_id
               /\ f.last_get = f.query_id
               /\ Len(CallsOf(f, "describe_jobs")) = 0

C14_Witness ==
    \E i \in active :
        LET f == frame[i] IN
        /\ QueryFailed(f)
        /\ f.idx < Len(f.time_ranges)
        /\ f.polls >= 2

(* C15: an invocation that returns for a job whose effective end is after *)
(* its start has issued one start_query per 600 seconds of the interval,  *)
(* rounded up, each with the engine's log group, the extractor's query    *)
(* text and limit 10000; the plan for a job of 10 days has 1440 windows.  *)

TenDayPlan == TimeRanges(T0, T0 + TenDaysSeconds)

C15_OneQueryPerWindow ==
    /\ Len(TenDayPlan) = WorstCaseQueries
    /\ \A i \in active :
          LET f == frame[i]
              r == StartRequests(f)
              d == EffectiveEnd(f) - f.head_job.startedAt
          IN  (Entered(f) /\ Started(f) /\ Returned(f) /\ d > 0) =>
                 /\ (Len(r) - 1) * 600 < d /\ d <= Len(r) * 600
                 /\ Len(r) = Len(f.time_ranges)
                 /\ \A k \in DOMAIN r :
                       /\ r[k].logGroupName = EngineLogGroup
                       /\ r[k].queryString = r[1].queryString
                       /\ r[k].queryString.text =
                             (IF f.caller = "get_child_tasks"
                              THEN QueryChildTasks ELSE QueryTaskOutputs)
                       /\ r[k].limit = 10000

C15_Witness ==
    \E i \in active :
        LET f == frame[i] IN
        /\ Entered(f) /\ Started(f) /\ Returned(f)
        /\ EffectiveEnd(f) - f.head_job.startedAt = 1201
        /\ Len(StartRequests(f)) = 3

(* C16: for a job of at most 10 days an invocation makes at most 1440     *)
(* queries and the seconds it spends in its 1-second waits are at most    *)
(* 24, below the caller's 29 seconds.  The code waits a second before the *)
(* first poll of every window, so 25 windows already take 25 seconds.     *)

C16_WithinWorstCase ==
    \A i \in active :
        LET f == frame[i] IN
        (Entered(f) /\ Started(f)
            /\ EffectiveEnd(f) - f.head_job.startedAt <= TenDaysSeconds)
        => /\ Len(CallsOf(f, "start_query")) <= WorstCaseQueries
           /\ f.slept <= WorstCaseSeconds
           /\ f.slept < GatewayTimeout

(* C17: with a backend whose queries all leave Scheduled/Running, every   *)
(* invocation eventually returns or raises; and as long as the last       *)
(* response is Scheduled or Running the invocation has neither returned   *)
(* nor raised and its next poll is possible, whatever the number of polls *)
(* made so far.                                                           *)

Finished(f) ==
    /\ f.pc = "done"
    /\ \/ f.ret.kind = "return"
       \/ f.ret.kind = "raise"

C17_Terminates ==
    /\ [](\A i \in active :
            LET f == frame[i] IN
            (f.pc = "poll" /\ f.response.status \in PendingStatuses)
            => /\ ENABLED Poll(i)
               /\ f.ret = NoReturn
               /\ ~ENABLED (StartQuery(i) \/ TaskOutputsReturn(i)
                              \/ ChildTasksDescribe(i)))
    /\ <>(\A i \in active : Finished(frame[i]))

\* an invocation that finished although one of its queries was still
\* pending after MaxPolls - 1 polls
C17_Witness ==
    \E i \in active :
        LET f == frame[i] IN
        /\ Finished(f)
        /\ f.polls = MaxPolls
        /\ Len(CallsOf(f, "start_query")) >= 2

(* C18: two invocations interleaved in any way each do what they would do *)
(* alone: each issues the start_query requests planned from its own job,  *)
(* in order, polls only the queries it submitted, sees only responses to  *)
(* its own query, and returns rows that are complete answers to its own   *)
(* requests, window after window (or raises on a failure of its own       *)
(* query).                                                                *)

\* the requests an invocation for the job of f makes when it runs alone
PlannedRequests(f) ==
    LET trs == IF Started(f)
               THEN TimeRanges(f.head_job.startedAt, EffectiveEnd(f))
               ELSE <<>>
    IN  [k \in DOMAIN trs |->
            StartQueryRequest([f EXCEPT !.time_ranges = trs,
                                        !.last_time_point = EffectiveEnd(f),
                                        !.idx = k])]

\* the row lists the backend may deliver for a sequence of requests
RECURSIVE AloneRows(_)
AloneRows(reqs) ==
    IF reqs = <<>> THEN {<<>>}
    ELSE {MapToDict(a) \o rest : a \in FullAnswers(Head(reqs)),
                                 rest \in AloneRows(Tail(reqs))}

\* the number of windows whose rows the invocation has accumulated
WindowsDone(f) == IF f.pc \in {"resume", "done"} /\ f.ret.kind # "raise"
                  THEN Len(CallsOf(f, "start_query"))
                  ELSE IF f.pc = "start" THEN f.idx - 1
                  ELSE Len(CallsOf(f, "start_query")) - 1

C18_NoInterference ==
    \A i \in active :
        LET f == frame[i]
            c == CallsOf(f, "start_query")
            plan == PlannedRequests(f)
        IN  Entered(f) =>
            /\ Len(c) <= Len(plan)
            /\ StartRequests(f) = SubSeq(plan, 1, Len(c))
            /\ Returned(f) => Len(c) = Len(plan)
            /\ \A k \in DOMAIN c : queries[c[k].queryId] = c[k].req
            /\ \A j \in active \ {i} :
                 \A k \in DOMAIN c :
                    \A m \in DOMAIN CallsOf(frame[j], "start_query") :
                       c[k].queryId # CallsOf(frame[j], "start_query")[m].queryId
            /\ (f.pc = "poll" \/ f.ret.kind = "raise") =>
                 /\ f.query_id = c[Len(c)].queryId
                 /\ f.gets > 0 => f.last_get \in {c[k].queryId : k \in DOMAIN c}
                 /\ f.response # NoResponse =>
                      /\ f.last_get = f.query_id
                      /\ f.response.results
                            \in ResultsOf(c[Len(c)].req, f.response.status)
            /\ f.ret.kind = "raise" =>
                 \/ f.response.status \in Statuses \ (PendingStatuses \cup {"Complete"})
                 \/ f.ret.exc = "KeyError"
            /\ f.results \in AloneRows(SubSeq(plan, 1, WindowsDone(f)))

\* both invocations have finished with a row each, the second one having
\* submitted its query between the two queries of the first
C18_Witness ==
    LET c1 == CallsOf(frame[1], "start_query")
        c2 == CallsOf(frame[2], "start_query")
    IN  /\ active = {1, 2}
        /\ Returned(frame[1]) /\ Returned(frame[2])
        /\ Len(c1) = 2 /\ Len(c2) = 1
        /\ c1[1].queryId < c2[1].queryId /\ c2[1].queryId < c1[2].queryId
        /\ Len(frame[1].results) = 1 /\ Len(frame[2].results) = 1
        /\ frame[1].results # frame[2].results

(* C19: every get_query_results call comes with exactly one 1-second wait *)
(* and every wait with one call, so the waits of an invocation equal its  *)
(* polls; a submitted query starts with no response and is polled at      *)
(* least once before the invocation moves on, even when its first         *)
(* response is Complete; rows are only ever taken from a poll's response. *)

C19_WaitThenPoll ==
    [][\A i \in active :
        LET f == frame[i]
            g == frame'[i]
        IN  /\ (g.gets # f.gets \/ g.slept # f.slept) =>
                 /\ g.gets = f.gets + 1
                 /\ g.slept = f.slept + SleepSeconds
                 /\ f.pc = "poll"
                 /\ g.last_get = f.query_id
            /\ g.slept = g.gets * SleepSeconds
            /\ (f.pc # "poll" /\ g.pc = "poll") =>
                 /\ g.response = NoResponse
                 /\ g.polls = 0
            /\ (f.pc = "poll" /\ g.pc # "poll") =>
                 /\ g.gets = f.gets + 1
                 /\ g.polls >= 1
            /\ g.results # f.results => g.gets = f.gets + 1
            /\ g.pc # "poll" => g.gets >= Len(CallsOf(g, "start_query"))
      ]_vars

\* two queries, each Complete at its first poll: two waits, two polls
C19_Witness ==
    \E i \in active :
        LET f == frame[i] IN
        /\ Returned(f)
        /\ Len(CallsOf(f, "start_query")) = 2
        /\ f.gets = 2 /\ f.slept = 2 * SleepSeconds
        /\ f.response.status = "Complete"
        /\ Len(f.results) >= 1

(* C20: get_child_tasks for a head job with a log stream, none of whose   *)
(* queries failed, ends in one of two ways.  If every result row has a    *)
(* jobId it calls describe_jobs exactly once, as its last call, after     *)
(* every planned query has been answered Complete, with the jobId of each *)
(* row in row order: the empty list for a job that has not started or has *)
(* no announcement.  If some row has no jobId it raises KeyError and      *)
(* describe_jobs is never called.  Before that point, and after a failed  *)
(* query, describe_jobs has not been called.                              *)

\* some result row lacks the jobId field
RowWithoutJobId(f) == \E k \in DOMAIN f.results : "jobId" \notin DOMAIN f.results[k]

C20_DescribeOnceInRowOrder ==
    \A i \in active :
        LET f == frame[i]
            d == CallsOf(f, "describe_jobs")
            c == CallsOf(f, "start_query")
            raw == DeliveredRows(f)
        IN  (f.caller = "get_child_tasks" /\ HasLogStream(f)) =>
            /\ Len(d) <= 1
            /\ (f.pc # "done" \/ f.ret.kind = "raise") => Len(d) = 0
            /\ (f.pc = "done" /\ ~QueryFailed(f)) =>
                 IF RowWithoutJobId(f)
                 THEN /\ f.ret = [kind |-> "raise", exc |-> "KeyError"]
                      /\ Len(d) = 0
                 ELSE /\ f.ret.kind = "return"
                      /\ Len(d) = 1
                      /\ f.calls[Len(f.calls)] = d[1]
                      /\ Len(c) = Len(f.time_ranges)
                      /\ \A k \in DOMAIN c :
                           \E a \in DOMAIN answers : answers[a].queryId = c[k].queryId
                      /\ Len(d[1].jobs) = Len(raw)
                      /\ \A k \in DOMAIN raw : d[1].jobs[k] = KeyOfRow(raw[k])
                      /\ d[1].jobs = [k \in DOMAIN f.results |-> f.results[k]["jobId"]]
                      /\ ~Started(f) => d[1].jobs = <<>>

\* describe_jobs called with two identifiers found in two different windows
C20_Witness ==
    \E i \in active :
        LET f == frame[i]
            d == CallsOf(f, "describe_jobs")
            c == CallsOf(f, "start_query")
        IN  /\ f.caller = "get_child_tasks" /\ f.pc = "done"
            /\ Len(d) = 1
            /\ Len(d[1].jobs) = 2
            /\ Len(c) >= 2
            /\ Len(AnswerTo(c[1].queryId)) = 1

C20_WitnessKeyError ==
    \E i \in active :
        LET f == frame[i] IN
        /\ f.caller = "get_child_tasks"
        /\ f.ret = [kind |-> "raise", exc |-> "KeyError"]
        /\ Len(f.results) = 2

C20_WitnessEmptyList ==
    \E i \in active :
        LET f == frame[i]
            d == CallsOf(f, "describe_jobs")
        IN  /\ f.caller = "get_child_tasks" /\ f.pc = "done"
            /\ Len(d) = 1 /\ d[1].jobs = <<>>
            /\ Started(f) /\ Len(CallsOf(f, "start_query")) >= 1

====
